---- MODULE Spec2Model ----
(***************************************************************************)
(* The candle bridge of cointop10-websocket: the subscription registry,    *)
(* the connection registry, the upstream sockets with their open / close / *)
(* message events, the reconnect timers and the 1m -> target timeframe     *)
(* aggregation, as one state machine.                                      *)
(*                                                                         *)
(* Strings that the code joins with '-' and later cuts with startsWith /   *)
(* split('-') are sequences of '-'-free tokens: "binance-testnet" is       *)
(* <<"binance", "testnet">>, and the key `${exchange}-${symbol}-${tf}` is  *)
(* the concatenation of the token sequences.  A JS Map / Set is a sequence *)
(* in insertion order; a suspended iterator is the index of the entry it   *)
(* visits next, moved down when an entry before it is deleted.             *)
(***************************************************************************)
EXTENDS Integers, Sequences, FiniteSets, TLC

VARIABLES
    userSubscriptions,  \* Map key -> Set<userId>: Seq of [key, users]
    activeConnections,  \* Map baseKey -> WebSocket: function baseKey -> socket id
    candleBuffers,      \* Map bufferKey -> {candles, targetTimeframe}
    sockets,            \* the WebSocket objects whose 'close' has not fired yet
    timers,             \* pending setTimeout(..., 5000) callbacks, in firing order
    handlers,           \* 'message' handlers suspended in await sendToWorker
    arrived,            \* history: finalized base candles seen by a handler
    sent,               \* history: candles handed to sendToWorker
    lastOp,             \* history: the handler that ran last and what it did
    env                 \* the bounded environment of this run (never changes)

vars == <<userSubscriptions, activeConnections, candleBuffers, sockets, timers,
          handlers, arrived, sent, lastOp, env>>

-----------------------------------------------------------------------------
(* Bounds of the model. *)

MaxSockets == 2     \* sockets and pending reconnect timers together
MaxHandlers == 1    \* message handlers suspended at the same time
MaxCandles == 1     \* base candles that arrive in a run
MaxSent == 2        \* candles handed to sendToWorker in a run

\* The aggregation runs: candles enough for a subscriber of two timeframes
\* to get a derived candle, for a second handler to start while the first
\* is suspended in its dispatch, and for a buffer to pass 2 * 5.
FoldCandles == 3
RaceCandles == 6
RaceHandlers == 2
CapCandles == 11
CapSent == 0

\* The delivery runs: one base candle.
SinkCandles == 1

\* The runs on what comes over the wire (batches, malformed messages).
WireCandles == 2

\* The ordering runs: two base candles, each handed to two subscribers.
OrderCandles == 2
OrderSent == 3

-----------------------------------------------------------------------------
(* Sequences as JS arrays. *)

\* Array.prototype.slice(k) for k >= 0: drops the first k elements.
SliceFrom(s, k) == SubSeq(s, k + 1, Len(s))

\* Array.prototype.slice(-k) for k > 0: the last k elements (all when shorter).
SliceLast(s, k) == IF Len(s) <= k THEN s ELSE SubSeq(s, Len(s) - k + 1, Len(s))

\* s without its i-th element.
RemoveAt(s, i) == SubSeq(s, 1, i - 1) \o SubSeq(s, i + 1, Len(s))

\* The index of x in s, 0 when absent.
IndexOf(s, x) == IF \E i \in 1..Len(s) : s[i] = x
                 THEN CHOOSE i \in 1..Len(s) : s[i] = x /\ \A j \in 1..(i - 1) : s[j] # x
                 ELSE 0

\* The number that is not one: what parseFloat makes of undefined and of a
\* string without digits.  Prices and volumes are never negative, so the
\* value below stands for it; Math.max, Math.min and + propagate it.
NaN == 0 - 1

HasNaN(s) == \E i \in 1..Len(s) : s[i] = NaN

RECURSIVE Greatest(_)
Greatest(s) == IF Len(s) = 1 THEN s[1]
               ELSE LET m == Greatest(Tail(s)) IN IF s[1] > m THEN s[1] ELSE m

RECURSIVE Least(_)
Least(s) == IF Len(s) = 1 THEN s[1]
            ELSE LET m == Least(Tail(s)) IN IF s[1] < m THEN s[1] ELSE m

RECURSIVE Total(_)
Total(s) == IF s = <<>> THEN 0 ELSE s[1] + Total(Tail(s))

\* A slip of the fold: the first candle's value for the extreme.
FirstOf(s) == s[1]

\* Math.max(...s), Math.min(...s) and s.reduce((sum, c) => sum + c, 0).
MaxOf(s) == IF HasNaN(s) THEN NaN ELSE Greatest(s)

MinOf(s) == IF HasNaN(s) THEN NaN ELSE Least(s)

SumOf(s) == IF HasNaN(s) THEN NaN ELSE Total(s)

\* The number a string of decimal digits writes, the string given as its
\* digits.
RECURSIVE Digits(_)
Digits(ds) == IF ds = <<>> THEN 0
              ELSE 10 * Digits(SubSeq(ds, 1, Len(ds) - 1)) + ds[Len(ds)]

\* parseFloat on a string of decimal digits; a field that is absent from
\* the message is given as no digits at all.
parseFloat(ds) == IF ds = <<>> THEN NaN ELSE Digits(ds)

-----------------------------------------------------------------------------
(* Keys. *)

\* `${exchange}-${symbol}-${timeframe}`
SubKey(exchange, symbol, timeframe) == exchange \o symbol \o <<timeframe>>

\* `${exchange}-${symbol}-1m`
BaseKey(exchange, symbol) == exchange \o symbol \o <<"1m">>

\* `${userId}-${exchange}-${symbol}`
BufferKey(userId, exchange, symbol) == <<userId>> \o exchange \o symbol

\* subKey.startsWith(`${exchange}-${symbol}-`)
StartsWithPair(subKey, exchange, symbol) ==
    LET p == exchange \o symbol
    IN  Len(subKey) > Len(p) /\ SubSeq(subKey, 1, Len(p)) = p

\* subKey.split('-')[2]
TargetTimeframe(subKey) == subKey[3]

\* The switch of connectExchange: the exchange names that have a wsUrl.
SupportedExchanges ==
    {<<"binance">>, <<"binance", "testnet">>, <<"bybit">>, <<"bybit", "testnet">>}

-----------------------------------------------------------------------------
(* The aggregation functions. *)

timeframeToMinutes(timeframe) ==
    CASE timeframe = "1m" -> 1
      [] timeframe = "5m" -> 5
      [] timeframe = "15m" -> 15
      [] timeframe = "30m" -> 30
      [] timeframe = "1h" -> 60
      [] timeframe = "4h" -> 240
      [] OTHER -> 1

\* The chunk folded by convertToTargetTimeframe: candles.slice(-minutes).
Chunk(candles, minutes) == SliceLast(candles, minutes)

\* <<>> for null, <<candle>> otherwise.
convertToTargetTimeframe(candles, targetTimeframe) ==
    LET minutes == timeframeToMinutes(targetTimeframe)
        chunk == Chunk(candles, minutes)
    IN  IF Len(candles) < minutes THEN <<>>
        ELSE << [exchange |-> chunk[1].exchange,
                 symbol |-> chunk[1].symbol,
                 timeframe |-> targetTimeframe,
                 timestamp |-> chunk[1].timestamp,
                 open |-> chunk[1].open,
                 high |-> MaxOf([i \in 1..Len(chunk) |-> chunk[i].high]),
                 low |-> MinOf([i \in 1..Len(chunk) |-> chunk[i].low]),
                 close |-> chunk[Len(chunk)].close,
                 volume |-> SumOf([i \in 1..Len(chunk) |-> chunk[i].volume])] >>

-----------------------------------------------------------------------------
(* The registries. *)

\* userSubscriptions.has(key)
HasKey(subs, key) == \E i \in 1..Len(subs) : subs[i].key = key

\* The position of key's entry in the Map's insertion order.
KeyIndex(subs, key) == CHOOSE i \in 1..Len(subs) : subs[i].key = key

\* userSubscriptions.get(key), <<>> when the key is absent.
UsersOf(subs, key) == IF HasKey(subs, key) THEN subs[KeyIndex(subs, key)].users ELSE <<>>

\* The loop that looks for a key of this exchange+symbol (hasOtherSubs in
\* /disconnect; with users.size > 0 in the reconnect timer, where no entry
\* is ever empty).
HasSubsWithPrefix(subs, exchange, symbol) ==
    \E i \in 1..Len(subs) :
        StartsWithPair(subs[i].key, exchange, symbol) /\ Len(subs[i].users) > 0

\* The subscriptions <<userId, timeframe>> of a pair, read off the keys that
\* are exactly its exchange, its symbol and one timeframe token.
Interested(subs, exchange, symbol) ==
    UNION { {<<subs[i].users[j], subs[i].key[Len(subs[i].key)]>> :
                j \in 1..Len(subs[i].users)} :
            i \in {i \in 1..Len(subs) :
                    /\ StartsWithPair(subs[i].key, exchange, symbol)
                    /\ Len(subs[i].key) = Len(exchange \o symbol) + 1} }

\* The sockets that are connecting or open, by pair.
LiveSockets(exchange, symbol) ==
    {id \in DOMAIN sockets :
        /\ sockets[id].exchange = exchange
        /\ sockets[id].symbol = symbol
        /\ sockets[id].state \in {"connecting", "open"}}

\* new WebSocket(wsUrl): the socket object gets the smallest free identity.
NewSocketId == CHOOSE id \in 1..(Cardinality(DOMAIN sockets) + 1) : id \notin DOMAIN sockets

\* Whether connectExchange(exchange, symbol) reaches new WebSocket(wsUrl).
ConnectCreates(conns, exchange, symbol) ==
    /\ BaseKey(exchange, symbol) \notin DOMAIN conns
    /\ exchange \in SupportedExchanges

\* connectExchange(exchange, symbol): the sockets after the call.  The new
\* socket is registered in activeConnections by its 'open' handler only.
connectExchange(socks, conns, exchange, symbol) ==
    IF ConnectCreates(conns, exchange, symbol)
    THEN (NewSocketId :> [exchange |-> exchange, symbol |-> symbol, state |-> "connecting"])
         @@ socks
    ELSE socks

\* Whether the run lets a request create a socket.  Every socket and every
\* pending timer holds one of the run's socket slots, so a timer that fires
\* always finds room for the socket it may create; in the runs without
\* overlap a pair is connected again only when no socket and no reconnect
\* timer of it is left.
SlotFree(exchange, symbol) ==
    IF env.overlap
    THEN Cardinality(DOMAIN sockets) + Len(timers) < env.maxSockets
    ELSE /\ \A id \in DOMAIN sockets :
               sockets[id].exchange # exchange \/ sockets[id].symbol # symbol
         /\ \A i \in 1..Len(timers) :
               timers[i].exchange # exchange \/ timers[i].symbol # symbol

\* What lastOp notes of a handler that ran: the request or the socket it was
\* for, the response, and what it did ("created": a socket was created,
\* "removed": a subscriber was removed, "closed": ws.close() was called,
\* "wantedAtClose": the timer was set while the pair had subscribers).
\* A message handler notes the message it was given, <<message>>, and the
\* socket the message came over.
Op(op, exchange, symbol, timeframe, userId, status, subscribers, did) ==
    [op |-> op, exchange |-> exchange, symbol |-> symbol, timeframe |-> timeframe,
     userId |-> userId, status |-> status, subscribers |-> subscribers, did |-> did,
     message |-> <<>>, socket |-> 0]

Did(flag, cond) == IF cond THEN {flag} ELSE {}

-----------------------------------------------------------------------------
(* The state after the module is loaded. *)

InitWith(envs) ==
    /\ env \in envs
    /\ userSubscriptions = <<>>
    /\ activeConnections = <<>>
    /\ candleBuffers = <<>>
    /\ sockets = <<>>
    /\ timers = <<>>
    /\ handlers = <<>>
    /\ arrived = <<>>
    /\ sent = <<>>
    /\ lastOp = Op("listen", <<>>, <<>>, "", "", 0, 0, {})

-----------------------------------------------------------------------------
(* app.post('/connect') *)

\* A slip of /connect: an array of users instead of a Set.
SubscribePushes(subs, key, userId) ==
    LET subs1 == IF HasKey(subs, key) THEN subs
                 ELSE Append(subs, [key |-> key, users |-> <<>>])
    IN  [subs1 EXCEPT ![KeyIndex(subs1, key)].users = Append(@, userId)]

\* userSubscriptions after the registration of userId under key.
Subscribe(subs, key, userId) ==
    LET subs1 == IF HasKey(subs, key) THEN subs
                 ELSE Append(subs, [key |-> key, users |-> <<>>])
        i == KeyIndex(subs1, key)
    IN  [subs1 EXCEPT ![i].users =
            IF IndexOf(@, userId) # 0 THEN @ ELSE Append(@, userId)]

\* !exchange || !symbol || !timeframe || !userId
MissingField(exchange, symbol, timeframe, userId) ==
    exchange = <<>> \/ symbol = <<>> \/ timeframe = "" \/ userId = ""

Connect(exchange, symbol, timeframe, userId) ==
    IF MissingField(exchange, symbol, timeframe, userId)
    THEN /\ lastOp' = Op("connect", exchange, symbol, timeframe, userId, 400, 0, {})
         /\ UNCHANGED <<userSubscriptions, activeConnections, candleBuffers, sockets,
                        timers, handlers, arrived, sent, env>>
    ELSE LET key == SubKey(exchange, symbol, timeframe)
             subs == Subscribe(userSubscriptions, key, userId)
             creates == ConnectCreates(activeConnections, exchange, symbol)
         IN  /\ creates => SlotFree(exchange, symbol)
             /\ userSubscriptions' = subs
             /\ sockets' = connectExchange(sockets, activeConnections, exchange, symbol)
             /\ lastOp' = Op("connect", exchange, symbol, timeframe, userId, 200,
                             Len(UsersOf(subs, key)), Did("created", creates))
             /\ UNCHANGED <<activeConnections, candleBuffers, timers, handlers,
                            arrived, sent, env>>

-----------------------------------------------------------------------------
(* app.post('/disconnect') *)

\* An obligation to deliver that was noted at a candle's arrival ends with
\* the unsubscribe of its subscription.
Released(log, timeframe, userId) ==
    [i \in 1..Len(log) |-> [log[i] EXCEPT !.interested = @ \ {<<userId, timeframe>>}]]

\* A suspended handler after users[p] of key's Set is deleted: an inner
\* iterator of that Set that is past p moves down with the elements.
AfterUserDelete(h, key, p) ==
    IF h.live /\ h.key = key /\ h.ii > p THEN [h EXCEPT !.ii = @ - 1] ELSE h

\* A suspended handler after the q-th entry (key) of the Map is deleted: the
\* Set it may still iterate is no longer the registered one (and is empty).
AfterKeyDelete(h, key, q) ==
    LET h1 == IF h.oi > q THEN [h EXCEPT !.oi = @ - 1] ELSE h
    IN  IF h1.live /\ h1.key = key THEN [h1 EXCEPT !.live = FALSE] ELSE h1

\* A suspended handler after candleBuffers.delete(bufferKey): the buffer
\* object it holds is no longer the registered one.
AfterBufferDelete(h, bufferKey) ==
    IF h.attached /\ h.bufferKey = bufferKey THEN [h EXCEPT !.attached = FALSE] ELSE h

\* A slip of /disconnect: the socket goes with the key's last user, other
\* timeframes of the pair or not.
DisconnectClosesWithKey(subs, conns, exchange, symbol, timeframe, userId) ==
    LET key == SubKey(exchange, symbol, timeframe)
        i == KeyIndex(subs, key)
        p == IndexOf(subs[i].users, userId)
        users == IF p = 0 THEN subs[i].users ELSE RemoveAt(subs[i].users, p)
    IN  /\ HasKey(subs, key)
        /\ Len(users) = 0
        /\ BaseKey(exchange, symbol) \in DOMAIN conns

\* Whether /disconnect reaches activeConnections.get(baseKey).close().
DisconnectCloses(subs, conns, exchange, symbol, timeframe, userId) ==
    LET key == SubKey(exchange, symbol, timeframe)
        i == KeyIndex(subs, key)
        p == IndexOf(subs[i].users, userId)
        users == IF p = 0 THEN subs[i].users ELSE RemoveAt(subs[i].users, p)
    IN  /\ HasKey(subs, key)
        /\ Len(users) = 0
        /\ ~HasSubsWithPrefix(RemoveAt(subs, i), exchange, symbol)
        /\ BaseKey(exchange, symbol) \in DOMAIN conns

\* A slip of /disconnect: the user is deleted from the Set and the entry is
\* left in the Map, empty or not.
UnsubscribeKeepsKey(subs, key, userId) ==
    IF ~HasKey(subs, key) THEN subs
    ELSE LET i == KeyIndex(subs, key)
             p == IndexOf(subs[i].users, userId)
         IN  [subs EXCEPT ![i].users = IF p = 0 THEN @ ELSE RemoveAt(@, p)]

\* userSubscriptions after the removal of userId from key (the entry goes
\* with its last user).
Unsubscribe(subs, key, userId) ==
    IF ~HasKey(subs, key) THEN subs
    ELSE LET i == KeyIndex(subs, key)
             p == IndexOf(subs[i].users, userId)
             users == IF p = 0 THEN subs[i].users ELSE RemoveAt(subs[i].users, p)
         IN  IF Len(users) = 0 THEN RemoveAt(subs, i)
             ELSE [subs EXCEPT ![i].users = users]

\* The suspended handlers after /disconnect changed the Map, the Set and
\* the buffers under their iterators.
HandlersAfterDisconnect(hs, subs, exchange, symbol, timeframe, userId) ==
    LET key == SubKey(exchange, symbol, timeframe)
        bufferKey == BufferKey(userId, exchange, symbol)
        i == KeyIndex(subs, key)
        p == IndexOf(subs[i].users, userId)
        gone == Len(subs[i].users) = (IF p = 0 THEN 0 ELSE 1)
        One(h) ==
            LET h1 == IF HasKey(subs, key) /\ p # 0 THEN AfterUserDelete(h, key, p) ELSE h
                h2 == IF HasKey(subs, key) /\ gone THEN AfterKeyDelete(h1, key, i) ELSE h1
            IN  AfterBufferDelete(h2, bufferKey)
    IN  [j \in 1..Len(hs) |-> One(hs[j])]

Disconnect(exchange, symbol, timeframe, userId) ==
    IF MissingField(exchange, symbol, timeframe, userId)
    THEN /\ lastOp' = Op("disconnect", exchange, symbol, timeframe, userId, 400, 0, {})
         /\ UNCHANGED <<userSubscriptions, activeConnections, candleBuffers, sockets,
                        timers, handlers, arrived, sent, env>>
    ELSE LET key == SubKey(exchange, symbol, timeframe)
             baseKey == BaseKey(exchange, symbol)
             bufferKey == BufferKey(userId, exchange, symbol)
             closes == DisconnectCloses(userSubscriptions, activeConnections,
                                        exchange, symbol, timeframe, userId)
         IN  /\ userSubscriptions' = Unsubscribe(userSubscriptions, key, userId)
             /\ sockets' = IF closes
                           THEN [sockets EXCEPT ![activeConnections[baseKey]].state = "closing"]
                           ELSE sockets
             /\ activeConnections' =
                    IF closes
                    THEN [k \in DOMAIN activeConnections \ {baseKey} |-> activeConnections[k]]
                    ELSE activeConnections
             /\ candleBuffers' =
                    [k \in DOMAIN candleBuffers \ {bufferKey} |-> candleBuffers[k]]
             /\ handlers' = HandlersAfterDisconnect(handlers, userSubscriptions,
                                                    exchange, symbol, timeframe, userId)
             /\ lastOp' = Op("disconnect", exchange, symbol, timeframe, userId, 200, 0,
                             Did("removed", IndexOf(UsersOf(userSubscriptions, key), userId) # 0)
                             \cup Did("closed", closes))
             /\ arrived' = Released(arrived, timeframe, userId)
             /\ UNCHANGED <<timers, sent, env>>

-----------------------------------------------------------------------------
(* The socket events of connectExchange. *)

\* ws.on('open'): registers the socket under its key, whatever is there.
SocketOpen(id) ==
    /\ id \in DOMAIN sockets
    /\ sockets[id].state = "connecting"
    /\ sockets' = [sockets EXCEPT ![id].state = "open"]
    /\ activeConnections' =
           (BaseKey(sockets[id].exchange, sockets[id].symbol) :> id) @@ activeConnections
    /\ lastOp' = Op("open", sockets[id].exchange, sockets[id].symbol, "", "", 0, 0, {})
    /\ UNCHANGED <<userSubscriptions, candleBuffers, timers, handlers, arrived, sent, env>>

\* ws.on('close'), after a failed connect, an upstream drop or ws.close():
\* deletes the key's registry entry, whichever socket it holds, and sets
\* the reconnect timer.  The handlers of its messages that are still
\* suspended go on, their socket being no socket of the run any more (0).
SocketClose(id) ==
    /\ id \in DOMAIN sockets
    /\ LET baseKey == BaseKey(sockets[id].exchange, sockets[id].symbol)
       IN  activeConnections' =
               [k \in DOMAIN activeConnections \ {baseKey} |-> activeConnections[k]]
    /\ timers' = Append(timers,
           [exchange |-> sockets[id].exchange, symbol |-> sockets[id].symbol,
            wantedAtClose |-> Interested(userSubscriptions, sockets[id].exchange,
                                         sockets[id].symbol) # {}])
    /\ sockets' = [k \in DOMAIN sockets \ {id} |-> sockets[k]]
    /\ handlers' = [j \in 1..Len(handlers) |->
                       IF handlers[j].socket = id THEN [handlers[j] EXCEPT !.socket = 0]
                       ELSE handlers[j]]
    /\ lastOp' = Op("close", sockets[id].exchange, sockets[id].symbol, "", "", 0, 0, {})
    /\ UNCHANGED <<userSubscriptions, candleBuffers, arrived, sent, env>>

\* Slips of the callback's test: reconnect whatever the registry holds, and
\* decide by the subscribers the pair had when the socket closed.
ReconnectAlways(subs, t) == TRUE

ReconnectWantedAtClose(subs, t) == t.wantedAtClose

\* The test of the setTimeout callback, made on the registry as it is when
\* the timer t fires.
ReconnectWanted(subs, t) == HasSubsWithPrefix(subs, t.exchange, t.symbol)

\* The setTimeout callback of ws.on('close'), 5 s after the close: all
\* timers have the same delay, so they fire in the order they were set.
TimerFire ==
    /\ timers # <<>>
    /\ LET t == Head(timers)
           wanted == ReconnectWanted(userSubscriptions, t)
           creates == wanted /\ ConnectCreates(activeConnections, t.exchange, t.symbol)
       IN  /\ sockets' = IF wanted
                         THEN connectExchange(sockets, activeConnections, t.exchange, t.symbol)
                         ELSE sockets
           /\ lastOp' = Op("timer", t.exchange, t.symbol, "", "", 0, 0,
                           Did("created", creates) \cup Did("wantedAtClose", t.wantedAtClose))
    /\ timers' = Tail(timers)
    /\ UNCHANGED <<userSubscriptions, activeConnections, candleBuffers, handlers,
                   arrived, sent, env>>

-----------------------------------------------------------------------------
(* ws.on('message') and processCandle. *)

\* The candle object built from a Binance kline k or a Bybit entry (the
\* parseFloat fields arrive as strings; the open time is a number).
BinanceCandle(exchange, symbol, k) ==
    [exchange |-> exchange, symbol |-> symbol, timeframe |-> "1m", timestamp |-> k.t,
     open |-> parseFloat(k.o), high |-> parseFloat(k.h), low |-> parseFloat(k.l),
     close |-> parseFloat(k.c), volume |-> parseFloat(k.v)]

BybitCandle(exchange, symbol, kline) ==
    [exchange |-> exchange, symbol |-> symbol, timeframe |-> "1m",
     timestamp |-> kline.start,
     open |-> parseFloat(kline.open), high |-> parseFloat(kline.high),
     low |-> parseFloat(kline.low), close |-> parseFloat(kline.close),
     volume |-> parseFloat(kline.volume)]

\* The closed-flag test of the Binance branch and the confirm test of the
\* Bybit loop.
BinanceClosed(message) == message.e = "kline" /\ message.k # <<>> /\ message.k[1].x

\* A slip of the Bybit loop: no confirm test.
BybitAnyEntry(kline) == TRUE

BybitConfirmed(kline) == kline.confirm

\* The candles one message makes the handler fan out, in the order it does:
\* the Binance branch, then the confirmed entries of the Bybit branch.  A
\* text that JSON.parse throws on takes the handler to its catch.
Decode(message, exchange, symbol) ==
    IF ~message.json THEN <<>> ELSE
    LET binance == IF BinanceClosed(message)
                   THEN <<BinanceCandle(exchange, symbol, message.k[1])>>
                   ELSE <<>>
        confirmed == SelectSeq(message.data, BybitConfirmed)
        bybit == IF message.topic # <<>> /\ message.topic[1] = "kline"
                 THEN [i \in 1..Len(confirmed) |-> BybitCandle(exchange, symbol, confirmed[i])]
                 ELSE <<>>
    IN  binance \o bybit

\* processCandle up to its await: the buffer is created on first use, the
\* candle pushed, the buffer capped at 2n, and the fold taken when n candles
\* are there.  slice(requiredCandles) runs after the await (Resume).
processCandle(bufs, candle1m, userId, targetTimeframe) ==
    LET bufferKey == BufferKey(userId, candle1m.exchange, candle1m.symbol)
        buffer == IF bufferKey \in DOMAIN bufs THEN bufs[bufferKey]
                  ELSE [candles |-> <<>>, targetTimeframe |-> targetTimeframe]
        requiredCandles == timeframeToMinutes(targetTimeframe)
        pushed == Append(buffer.candles, candle1m)
        capped == IF Len(pushed) > requiredCandles * 2
                  THEN SliceLast(pushed, requiredCandles * 2)
                  ELSE pushed
        converted == IF Len(capped) >= requiredCandles
                     THEN convertToTargetTimeframe(capped, targetTimeframe)
                     ELSE <<>>
    IN  [bufs |-> (bufferKey :> [buffer EXCEPT !.candles = capped]) @@ bufs,
         bufferKey |-> bufferKey,
         requiredCandles |-> requiredCandles,
         converted |-> converted]

\* A slip of the inner loop: it goes over every user the server knows of,
\* subscribed to the key or not.
RECURSIVE InSomeOrder(_)
InSomeOrder(S) ==
    IF S = {} THEN <<>>
    ELSE LET x == CHOOSE y \in S : TRUE IN <<x>> \o InSomeOrder(S \ {x})

IterateEveryUser(subs, h) == IF h.live THEN InSomeOrder(env.users) ELSE <<>>

\* What `for (const userId of users)` goes over: the Set of the entry h.key
\* as it is now, nothing once the entry has left the Map.
IteratedUsers(subs, h) == IF h.live THEN UsersOf(subs, h.key) ELSE <<>>

\* The handler from where it stands (candle Head(h.work), the Map iterator
\* at h.oi, the Set iterator of entry h.key at h.ii) to its next
\* await sendToWorker or to its end.  st carries the buffers and the log of
\* candles handed to sendToWorker.
RECURSIVE RunFanout(_, _)
RunFanout(h, st) ==
    IF h.work = <<>>
    THEN [h |-> <<>>, bufs |-> st.bufs, sent |-> st.sent]
    ELSE LET users == IteratedUsers(userSubscriptions, h)
         IN  IF h.ii <= Len(users)
             THEN LET userId == users[h.ii]
                      p == processCandle(st.bufs, Head(h.work), userId,
                                         TargetTimeframe(h.key))
                  IN  IF p.converted # <<>>
                      THEN [h |-> << [h EXCEPT !.ii = @ + 1,
                                               !.bufferKey = p.bufferKey,
                                               !.attached = TRUE,
                                               !.n = p.requiredCandles] >>,
                            bufs |-> p.bufs,
                            sent |-> Append(st.sent, [userId |-> userId,
                                                      key |-> h.key,
                                                      candle |-> p.converted[1]])]
                      ELSE RunFanout([h EXCEPT !.ii = @ + 1], [st EXCEPT !.bufs = p.bufs])
             ELSE IF h.oi <= Len(userSubscriptions)
                  THEN LET subKey == userSubscriptions[h.oi].key
                       IN  RunFanout([h EXCEPT !.oi = @ + 1,
                                               !.key = subKey,
                                               !.live = StartsWithPair(subKey, h.exchange,
                                                                       h.symbol),
                                               !.ii = 1], st)
                  ELSE RunFanout([h EXCEPT !.work = Tail(@), !.oi = 1, !.key = <<>>,
                                           !.live = FALSE, !.ii = 1], st)

\* The messages a socket of this exchange can receive while the exchange's
\* clock stands at minute t: a Binance kline event, closed or in progress,
\* or a Bybit topic message with one or two entries.
BinanceMessages(t) ==
    {[json |-> TRUE, e |-> "kline",
      k |-> << [x |-> x, t |-> t, o |-> w.o, h |-> w.h, l |-> w.l, c |-> w.c, v |-> w.v] >>,
      topic |-> <<>>, data |-> <<>>] : x \in BOOLEAN, w \in env.klines}

BybitEntry(confirm, t, w) ==
    [confirm |-> confirm, start |-> t, open |-> w.o, high |-> w.h, low |-> w.l,
     close |-> w.c, volume |-> w.v]

BybitMessages(t) ==
    {[json |-> TRUE, e |-> "", k |-> <<>>, topic |-> <<"kline", "1">>,
      data |-> <<BybitEntry(c1, t, w)>>] : c1 \in BOOLEAN, w \in env.klines}
    \cup
    {[json |-> TRUE, e |-> "", k |-> <<>>, topic |-> <<"kline", "1">>,
      data |-> <<BybitEntry(c1, t, w), BybitEntry(c2, t + 1, w)>>] :
        c1 \in BOOLEAN, c2 \in BOOLEAN, w \in env.klines}

\* What the handler does not expect: a text that is no JSON, and a JSON
\* kline event, closed, that has the open time but none of the o, h, l, c,
\* v fields.
MalformedMessages(t) ==
    {[json |-> FALSE, e |-> "", k |-> <<>>, topic |-> <<>>, data |-> <<>>],
     [json |-> TRUE, e |-> "kline",
      k |-> << [x |-> TRUE, t |-> t, o |-> <<>>, h |-> <<>>, l |-> <<>>, c |-> <<>>,
                v |-> <<>>] >>,
      topic |-> <<>>, data |-> <<>>]}

Messages(exchange, t) ==
    (IF exchange[1] = "bybit" THEN BybitMessages(t) ELSE BinanceMessages(t))
    \cup (IF env.malformed THEN MalformedMessages(t) ELSE {})

\* ws.on('message') up to its first await (or to its end).
OnMessage(id, message) ==
    /\ id \in DOMAIN sockets
    /\ sockets[id].state = "open"
    /\ Len(handlers) < env.maxHandlers
    /\ LET exchange == sockets[id].exchange
           symbol == sockets[id].symbol
           work == Decode(message, exchange, symbol)
           r == RunFanout([socket |-> id, exchange |-> exchange, symbol |-> symbol,
                           work |-> work, oi |-> 1, key |-> <<>>, live |-> FALSE, ii |-> 1,
                           bufferKey |-> <<>>, attached |-> FALSE, n |-> 0],
                          [bufs |-> candleBuffers, sent |-> sent])
       IN  /\ Len(arrived) + Len(work) <= env.maxCandles
           /\ arrived' = arrived \o
                  [i \in 1..Len(work) |->
                      [candle |-> work[i],
                       interested |-> Interested(userSubscriptions, exchange, symbol)]]
           /\ Len(r.sent) <= env.maxSent
           /\ candleBuffers' = r.bufs
           /\ sent' = r.sent
           /\ handlers' = handlers \o r.h
           /\ lastOp' = [Op("message", exchange, symbol, "", "", 0, Len(work), {})
                            EXCEPT !.message = <<message>>, !.socket = id]
    /\ UNCHANGED <<userSubscriptions, activeConnections, sockets, timers, env>>

\* How the fetch of sendToWorker can settle: a response with response.ok,
\* a response with another status, a rejection (transport error).
Outcomes == {"ok", "status", "error"}

\* A slip of sendToWorker: no try / catch, the rejection reaches the
\* handler of the message.
SettlesOnResponse(outcome) == outcome # "error"

\* Whether sendToWorker returns to processCandle: a status that is not ok
\* is logged, a rejection is caught and logged.
Settles(outcome) == TRUE

\* The continuation of the j-th suspended handler when the fetch of its
\* sendToWorker settles: processCandle drops requiredCandles candles from
\* the buffer object it holds, and the loops go on.  (A rejection that
\* came out of sendToWorker would end the handler in its catch.)
Resume(j, outcome) ==
    /\ j \in 1..Len(handlers)
    /\ LET h == handlers[j]
           bufs == IF h.attached
                   THEN [candleBuffers EXCEPT ![h.bufferKey].candles = SliceFrom(@, h.n)]
                   ELSE candleBuffers
           r == IF Settles(outcome)
                THEN RunFanout([h EXCEPT !.bufferKey = <<>>, !.attached = FALSE, !.n = 0],
                               [bufs |-> bufs, sent |-> sent])
                ELSE [h |-> <<>>, bufs |-> candleBuffers, sent |-> sent]
       IN  /\ Len(r.sent) <= env.maxSent
           /\ candleBuffers' = r.bufs
           /\ sent' = r.sent
           /\ handlers' = SubSeq(handlers, 1, j - 1) \o r.h \o
                          SubSeq(handlers, j + 1, Len(handlers))
           /\ lastOp' = Op("resume", h.exchange, h.symbol, "", "", 0, 0,
                           Did(outcome, outcome # "ok"))
    /\ UNCHANGED <<userSubscriptions, activeConnections, sockets, timers, arrived, env>>

-----------------------------------------------------------------------------
(* The environments and the specifications. *)

\* Two klines as they come over the wire (digit strings).
WireA == [o |-> <<1, 0>>, h |-> <<1, 2>>, l |-> <<9>>, c |-> <<1, 1>>, v |-> <<1>>]
WireB == [o |-> <<1, 1>>, h |-> <<1, 3>>, l |-> <<8>>, c |-> <<1, 0>>, v |-> <<2>>]

EnvOf(exchange, users, timeframes, klines, maxCandles, maxHandlers, maxSent) ==
    [exchanges |-> {exchange}, symbols |-> {<<"BTCUSDT">>}, users |-> users,
     timeframes |-> timeframes, klines |-> klines,
     maxCandles |-> maxCandles, maxHandlers |-> maxHandlers, maxSent |-> maxSent,
     maxSockets |-> MaxSockets, malformed |-> FALSE, overlap |-> TRUE]

Next ==
    \/ \E exchange \in env.exchanges, symbol \in env.symbols,
          timeframe \in env.timeframes, userId \in env.users :
            Connect(exchange, symbol, timeframe, userId)
    \/ \E exchange \in env.exchanges, symbol \in env.symbols,
          timeframe \in env.timeframes, userId \in env.users :
            Disconnect(exchange, symbol, timeframe, userId)
    \/ \E id \in DOMAIN sockets : SocketOpen(id)
    \/ \E id \in DOMAIN sockets : SocketClose(id)
    \/ TimerFire
    \/ \E id \in DOMAIN sockets :
          \E message \in Messages(sockets[id].exchange, Len(arrived) + 1) :
              OnMessage(id, message)
    \/ \E j \in 1..Len(handlers), outcome \in Outcomes : Resume(j, outcome)

\* The requests, the socket events and the timer alone: the message
\* handlers read and write none of userSubscriptions, activeConnections,
\* sockets and timers.
NextConn ==
    \/ \E exchange \in env.exchanges, symbol \in env.symbols,
          timeframe \in env.timeframes, userId \in env.users :
            Connect(exchange, symbol, timeframe, userId)
    \/ \E exchange \in env.exchanges, symbol \in env.symbols,
          timeframe \in env.timeframes, userId \in env.users :
            Disconnect(exchange, symbol, timeframe, userId)
    \/ \E id \in DOMAIN sockets : SocketOpen(id)
    \/ \E id \in DOMAIN sockets : SocketClose(id)
    \/ TimerFire

\* Two subscribers of one key; one subscriber of two timeframes; the same
\* on an exchange whose name has the -testnet suffix.
Envs ==
    {EnvOf(<<"binance">>, {"u1", "u2"}, {"1m"}, {WireA}, MaxCandles, MaxHandlers, MaxSent),
     EnvOf(<<"binance">>, {"u1"}, {"1m", "5m"}, {WireA}, MaxCandles, MaxHandlers, MaxSent),
     EnvOf(<<"binance", "testnet">>, {"u1"}, {"1m", "5m"}, {WireA},
           MaxCandles, MaxHandlers, MaxSent)}

\* The aggregation runs, all on the plain exchange name.
AggEnvs ==
    {EnvOf(<<"binance">>, {"u1"}, {"5m", "15m"}, {WireA}, FoldCandles, MaxHandlers, MaxSent),
     EnvOf(<<"binance">>, {"u1"}, {"5m"}, {WireA}, RaceCandles, RaceHandlers, MaxSent),
     EnvOf(<<"binance">>, {"u1"}, {"5m", "15m"}, {WireA}, CapCandles, MaxHandlers, CapSent)}

\* Requests with a field missing and requests for an exchange name that
\* connectExchange has no wsUrl for, next to well-formed ones.
ReqEnvs ==
    {[EnvOf(<<"binance">>, {"", "u1"}, {"1m"}, {WireA}, MaxCandles, MaxHandlers, MaxSent)
        EXCEPT !.exchanges = {<<>>, <<"kraken">>, <<"binance">>}]}

\* Two subscribers of one 1m key, for the deliveries of one candle event;
\* the pair has one connection at a time.
SinkEnvs ==
    {[EnvOf(<<"binance">>, {"u1", "u2"}, {"1m"}, {WireA}, SinkCandles, MaxHandlers, MaxSent)
        EXCEPT !.overlap = FALSE]}

\* One subscriber of the 1m key: of a Bybit pair, whose messages batch up
\* to two entries, and of a Binance pair; a pair has one connection at a
\* time.
WireEnvs ==
    {[EnvOf(<<"bybit">>, {"u1"}, {"1m"}, {WireA}, WireCandles, MaxHandlers, MaxSent)
        EXCEPT !.overlap = FALSE],
     [EnvOf(<<"binance">>, {"u1"}, {"1m"}, {WireA}, WireCandles, MaxHandlers, MaxSent)
        EXCEPT !.overlap = FALSE]}

\* One subscriber of the 1m key of a Binance pair whose socket also gets
\* malformed messages; the pair has one connection at a time.
MalformedEnvs ==
    {[EnvOf(<<"binance">>, {"u1"}, {"1m"}, {WireA}, WireCandles, MaxHandlers, MaxSent)
        EXCEPT !.overlap = FALSE, !.malformed = TRUE]}

\* Two subscribers of the 1m key of one pair, two handlers that can be
\* suspended at the same time; the pair has one connection at a time.
OrderEnvs ==
    {[EnvOf(<<"binance">>, {"u1", "u2"}, {"1m"}, {WireA}, OrderCandles, RaceHandlers,
            OrderSent)
        EXCEPT !.overlap = FALSE]}

\* Two pairs of one exchange, the symbol of the second being the symbol of
\* the first followed by '-' and more ("BTC" and "BTC-USD"), so that every
\* key of the second pair starts with the prefix of the first.
PrefixEnvs ==
    {[EnvOf(<<"binance">>, {"u1"}, {"1m"}, {WireA}, MaxCandles, MaxHandlers, MaxSent)
        EXCEPT !.symbols = {<<"BTC">>, <<"BTC", "USD">>}, !.overlap = FALSE]}

\* One subscriber of a timeframe that timeframeToMinutes does not list, on
\* a plain exchange name and on one with the -testnet suffix; a pair has one
\* connection at a time.
UnlistedEnvs ==
    {[EnvOf(<<"binance">>, {"u1"}, {"2m"}, {WireA}, WireCandles, MaxHandlers, MaxSent)
        EXCEPT !.overlap = FALSE],
     [EnvOf(<<"binance", "testnet">>, {"u1"}, {"2m"}, {WireA}, WireCandles, MaxHandlers,
            MaxSent)
        EXCEPT !.overlap = FALSE]}

Init == InitWith(Envs)

InitUnlisted == InitWith(UnlistedEnvs)

InitPrefix == InitWith(PrefixEnvs)

InitOrder == InitWith(OrderEnvs)

InitWire == InitWith(WireEnvs)

InitMalformed == InitWith(MalformedEnvs)

InitSink == InitWith(SinkEnvs)

InitReq == InitWith(ReqEnvs)

InitAgg == InitWith(AggEnvs)

Spec == Init /\ [][Next]_vars

SpecAgg == InitAgg /\ [][Next]_vars

SpecReq == InitReq /\ [][Next]_vars

SpecSink == InitSink /\ [][Next]_vars

SpecWire == InitWire /\ [][Next]_vars

SpecMalformed == InitMalformed /\ [][Next]_vars

SpecOrder == InitOrder /\ [][Next]_vars

SpecUnlisted == InitUnlisted /\ [][Next]_vars

SpecPrefix == InitPrefix /\ [][Next]_vars

SpecConn == Init /\ [][NextConn]_vars

\* setTimeout callbacks are always run in the end.
SpecLive == Init /\ [][NextConn]_vars /\ WF_vars(TimerFire)

-----------------------------------------------------------------------------
(* The variant without subscribers (part_001): one socket per                *)
(* exchange-symbol-timeframe key, registered when it is created, and a       *)
(* close handler that always reconnects.  Its registry `connections` is held *)
(* in activeConnections, its sockets carry their timeframe, and `arrived`    *)
(* logs the candles its handlers built.                                      *)

connections == activeConnections

\* Whether connectExchange(exchange, symbol, timeframe) reaches
\* new WebSocket(wsUrl).
PlainConnectCreates(exchange, symbol, timeframe) ==
    /\ SubKey(exchange, symbol, timeframe) \notin DOMAIN connections
    /\ exchange \in SupportedExchanges

\* connectExchange(exchange, symbol, timeframe) over the sockets `socks`: the
\* new socket is put into connections at the end of the call.
PlainConnectExchange(exchange, symbol, timeframe, socks) ==
    IF PlainConnectCreates(exchange, symbol, timeframe)
    THEN /\ sockets' = (NewSocketId :> [exchange |-> exchange, symbol |-> symbol,
                                        timeframe |-> timeframe, state |-> "connecting",
                                        released |-> FALSE])
                       @@ socks
         /\ activeConnections' =
                (SubKey(exchange, symbol, timeframe) :> NewSocketId) @@ connections
    ELSE /\ sockets' = socks
         /\ UNCHANGED activeConnections

\* What a socket and the timer of its close note besides the key: whether
\* /disconnect closed the socket (ws.close()) and no /connect for the key was
\* handled since.
PlainRequested(ts, exchange, symbol, timeframe) ==
    [i \in DOMAIN ts |->
        IF ts[i].exchange = exchange /\ ts[i].symbol = symbol /\ ts[i].timeframe = timeframe
        THEN [ts[i] EXCEPT !.released = FALSE]
        ELSE ts[i]]

\* app.post('/connect') of the variant.
PlainConnect(exchange, symbol, timeframe) ==
    IF exchange = <<>> \/ symbol = <<>> \/ timeframe = ""
    THEN /\ lastOp' = Op("connect", exchange, symbol, timeframe, "", 400, 0, {})
         /\ UNCHANGED <<userSubscriptions, activeConnections, candleBuffers, sockets,
                        timers, handlers, arrived, sent, env>>
    ELSE /\ PlainConnectCreates(exchange, symbol, timeframe)
                => Cardinality(DOMAIN sockets) + Len(timers) < env.maxSockets
         /\ PlainConnectExchange(exchange, symbol, timeframe,
                                 PlainRequested(sockets, exchange, symbol, timeframe))
         /\ timers' = PlainRequested(timers, exchange, symbol, timeframe)
         /\ lastOp' = Op("connect", exchange, symbol, timeframe, "", 200,
                         Cardinality(DOMAIN activeConnections'),
                         Did("created", PlainConnectCreates(exchange, symbol, timeframe)))
         /\ UNCHANGED <<userSubscriptions, candleBuffers, handlers, arrived, sent, env>>

\* app.post('/disconnect') of the variant: closes and forgets the socket of
\* the key, 404 when there is none.
PlainDisconnect(exchange, symbol, timeframe) ==
    LET key == SubKey(exchange, symbol, timeframe)
    IN  IF key \in DOMAIN connections
        THEN /\ sockets' = [sockets EXCEPT ![connections[key]].state = "closing",
                                            ![connections[key]].released = TRUE]
             /\ activeConnections' =
                    [k \in DOMAIN connections \ {key} |-> connections[k]]
             /\ lastOp' = Op("disconnect", exchange, symbol, timeframe, "", 200, 0,
                             {"closed"})
             /\ UNCHANGED <<userSubscriptions, candleBuffers, timers, handlers, arrived,
                            sent, env>>
        ELSE /\ lastOp' = Op("disconnect", exchange, symbol, timeframe, "", 404, 0, {})
             /\ UNCHANGED <<userSubscriptions, activeConnections, candleBuffers, sockets,
                            timers, handlers, arrived, sent, env>>

\* ws.on('open') of the variant: nothing but the Bybit subscribe message.
PlainSocketOpen(id) ==
    /\ id \in DOMAIN sockets
    /\ sockets[id].state = "connecting"
    /\ sockets' = [sockets EXCEPT ![id].state = "open"]
    /\ lastOp' = Op("open", sockets[id].exchange, sockets[id].symbol,
                    sockets[id].timeframe, "", 0, 0, {})
    /\ UNCHANGED <<userSubscriptions, activeConnections, candleBuffers, timers, handlers,
                   arrived, sent, env>>

\* ws.on('close') of the variant: deletes the key from connections,
\* whichever socket it holds, and sets the timer.
PlainSocketClose(id) ==
    /\ id \in DOMAIN sockets
    /\ LET key == SubKey(sockets[id].exchange, sockets[id].symbol, sockets[id].timeframe)
       IN  activeConnections' = [k \in DOMAIN connections \ {key} |-> connections[k]]
    /\ timers' = Append(timers,
           [exchange |-> sockets[id].exchange, symbol |-> sockets[id].symbol,
            timeframe |-> sockets[id].timeframe,
            released |-> sockets[id].released])
    /\ sockets' = [k \in DOMAIN sockets \ {id} |-> sockets[k]]
    /\ handlers' = [j \in 1..Len(handlers) |->
                       IF handlers[j].socket = id THEN [handlers[j] EXCEPT !.socket = 0]
                       ELSE handlers[j]]
    /\ lastOp' = Op("close", sockets[id].exchange, sockets[id].symbol,
                    sockets[id].timeframe, "", 0, 0, {})
    /\ UNCHANGED <<userSubscriptions, candleBuffers, arrived, sent, env>>

\* The setTimeout callback of the variant: connectExchange, no test.
PlainTimerFire ==
    /\ timers # <<>>
    /\ LET t == Head(timers)
       IN  /\ PlainConnectExchange(t.exchange, t.symbol, t.timeframe, sockets)
           /\ lastOp' = Op("timer", t.exchange, t.symbol, t.timeframe, "", 0, 0,
                           Did("created",
                               PlainConnectCreates(t.exchange, t.symbol, t.timeframe))
                           \cup Did("released", t.released))
    /\ timers' = Tail(timers)
    /\ UNCHANGED <<userSubscriptions, candleBuffers, handlers, arrived, sent, env>>

\* ws.on('message') of the variant up to its first await sendToWorker: the
\* candles carry the timeframe of the socket.
PlainOnMessage(id, message) ==
    /\ id \in DOMAIN sockets
    /\ sockets[id].state = "open"
    /\ Len(handlers) < env.maxHandlers
    /\ LET exchange == sockets[id].exchange
           symbol == sockets[id].symbol
           key == SubKey(exchange, symbol, sockets[id].timeframe)
           decoded == Decode(message, exchange, symbol)
           work == [i \in 1..Len(decoded) |->
                       [decoded[i] EXCEPT !.timeframe = sockets[id].timeframe]]
       IN  /\ Len(arrived) + Len(work) <= env.maxCandles
           /\ arrived' = arrived \o
                  [i \in 1..Len(work) |-> [candle |-> work[i], interested |-> {}]]
           /\ IF work = <<>>
              THEN UNCHANGED <<sent, handlers>>
              ELSE /\ Len(sent) < env.maxSent
                   /\ sent' = Append(sent, [userId |-> "", key |-> key,
                                            candle |-> work[1]])
                   /\ handlers' = Append(handlers,
                          [socket |-> id, key |-> key, work |-> Tail(work)])
           /\ lastOp' = [Op("message", exchange, symbol, sockets[id].timeframe, "", 0,
                            Len(work), {})
                            EXCEPT !.message = <<message>>, !.socket = id]
    /\ UNCHANGED <<userSubscriptions, activeConnections, candleBuffers, sockets, timers,
                   env>>

\* The continuation of the j-th suspended handler of the variant when its
\* fetch settles; sendToWorker catches what it throws.
PlainResume(j, outcome) ==
    /\ j \in 1..Len(handlers)
    /\ LET h == handlers[j]
       IN  /\ IF h.work = <<>>
              THEN /\ handlers' = RemoveAt(handlers, j)
                   /\ UNCHANGED sent
              ELSE /\ Len(sent) < env.maxSent
                   /\ sent' = Append(sent, [userId |-> "", key |-> h.key,
                                            candle |-> h.work[1]])
                   /\ handlers' = [handlers EXCEPT ![j].work = Tail(@)]
           /\ lastOp' = Op("resume", <<>>, <<>>, "", "", 0, 0,
                           Did(outcome, outcome # "ok"))
    /\ UNCHANGED <<userSubscriptions, activeConnections, candleBuffers, sockets, timers,
                   arrived, env>>

NextPlain ==
    \/ \E exchange \in env.exchanges, symbol \in env.symbols,
          timeframe \in env.timeframes :
            PlainConnect(exchange, symbol, timeframe)
    \/ \E exchange \in env.exchanges, symbol \in env.symbols,
          timeframe \in env.timeframes :
            PlainDisconnect(exchange, symbol, timeframe)
    \/ \E id \in DOMAIN sockets : PlainSocketOpen(id)
    \/ \E id \in DOMAIN sockets : PlainSocketClose(id)
    \/ PlainTimerFire
    \/ \E id \in DOMAIN sockets :
          \E message \in Messages(sockets[id].exchange, Len(arrived) + 1) :
              PlainOnMessage(id, message)
    \/ \E j \in 1..Len(handlers), outcome \in Outcomes : PlainResume(j, outcome)

\* Two keys of one pair, and requests with the exchange missing.
PlainEnvs ==
    {[EnvOf(<<"binance">>, {}, {"1m", "5m"}, {WireA}, MaxCandles, MaxHandlers, MaxSent)
        EXCEPT !.exchanges = {<<>>, <<"binance">>}]}

InitPlain == InitWith(PlainEnvs)

SpecPlain == InitPlain /\ [][NextPlain]_vars

-----------------------------------------------------------------------------
(* convertToTargetTimeframe on its own: a buffer as processCandle can hold   *)
(* it, and the fold applied to it.                                           *)

FoldLen == 6

\* The 1m candles a buffer is filled from: three that have their high and
\* low around open and close, one whose high is below its open, and the one
\* a kline without price fields makes.
FoldShapes ==
    {[open |-> 2, high |-> 4, low |-> 2, close |-> 3, volume |-> 1],
     [open |-> 3, high |-> 3, low |-> 1, close |-> 2, volume |-> 1],
     [open |-> 5, high |-> 6, low |-> 5, close |-> 5, volume |-> 1],
     [open |-> 4, high |-> 3, low |-> 2, close |-> 2, volume |-> 1],
     [open |-> NaN, high |-> NaN, low |-> NaN, close |-> NaN, volume |-> NaN]}

\* The buffers of n shapes, minute by minute.
FoldBuffers(exchange, symbol, n) ==
    {[i \in 1..n |-> [exchange |-> exchange, symbol |-> symbol, timeframe |-> "1m",
                      timestamp |-> i, open |-> f[i].open, high |-> f[i].high,
                      low |-> f[i].low, close |-> f[i].close, volume |-> f[i].volume]] :
        f \in [1..n -> FoldShapes]}

FoldEnvs ==
    {EnvOf(<<"binance">>, {"u1"}, {"1m", "5m"}, {}, FoldLen, 0, 1)}

\* One buffer of one subscriber, of at most 2n candles (the cap of
\* processCandle) and at most the bound.
InitFold ==
    /\ env \in FoldEnvs
    /\ userSubscriptions = <<>>
    /\ activeConnections = <<>>
    /\ \E exchange \in env.exchanges, symbol \in env.symbols, userId \in env.users,
          targetTimeframe \in env.timeframes, n \in 0..env.maxCandles :
          /\ n <= 2 * timeframeToMinutes(targetTimeframe)
          /\ \E candles \in FoldBuffers(exchange, symbol, n) :
                candleBuffers = (BufferKey(userId, exchange, symbol) :>
                                    [candles |-> candles,
                                     targetTimeframe |-> targetTimeframe])
    /\ sockets = <<>>
    /\ timers = <<>>
    /\ handlers = <<>>
    /\ arrived = <<>>
    /\ sent = <<>>
    /\ lastOp = Op("listen", <<>>, <<>>, "", "", 0, 0, {})

\* convertToTargetTimeframe(buffer.candles, buffer.targetTimeframe); the
\* derived candle is noted in `sent`, null as nothing.
ApplyFold(bufferKey) ==
    /\ bufferKey \in DOMAIN candleBuffers
    /\ lastOp.op # "fold"
    /\ LET buffer == candleBuffers[bufferKey]
           converted == convertToTargetTimeframe(buffer.candles, buffer.targetTimeframe)
       IN  /\ sent' = [i \in 1..Len(converted) |->
                          [userId |-> "", key |-> bufferKey, candle |-> converted[i]]]
           /\ lastOp' = Op("fold", <<>>, <<>>, buffer.targetTimeframe, "", 0, 0,
                           Did("null", converted = <<>>))
    /\ UNCHANGED <<userSubscriptions, activeConnections, candleBuffers, sockets, timers,
                   handlers, arrived, env>>

NextFold == \E bufferKey \in DOMAIN candleBuffers : ApplyFold(bufferKey)

SpecFold == InitFold /\ [][NextFold]_vars

-----------------------------------------------------------------------------
(* The pairs of the run, and what the claims speak of. *)

Pairs == {<<exchange, symbol>> : exchange \in env.exchanges, symbol \in env.symbols}

\* The pair of the handler that ran last.
OpPair == <<lastOp.exchange, lastOp.symbol>>

\* The subscriptions of a pair that are in the registry now.
PairSubs(pair) == Interested(userSubscriptions, pair[1], pair[2])

\* The timeframe a subscription key was requested with.
RequestedTimeframe(key) == key[Len(key)]

\* The base candles of a pair in the order they arrived.
ArrivedOf(pair) ==
    LET OfPair(a) == a.candle.exchange = pair[1] /\ a.candle.symbol = pair[2]
    IN  SelectSeq(arrived, OfPair)

\* How many candles were handed to the sink for userId under key.
SentTo(userId, key) ==
    Cardinality({i \in 1..Len(sent) : sent[i].userId = userId /\ sent[i].key = key})

\* The fold the specification asks for, over the base candles cs.
FoldOf(cs, timeframe) ==
    [exchange |-> cs[1].exchange, symbol |-> cs[1].symbol, timeframe |-> timeframe,
     timestamp |-> cs[1].timestamp, open |-> cs[1].open, close |-> cs[Len(cs)].close,
     high |-> CHOOSE x \in {cs[i].high : i \in 1..Len(cs)} :
                  \A i \in 1..Len(cs) : cs[i].high <= x,
     low |-> CHOOSE x \in {cs[i].low : i \in 1..Len(cs)} :
                 \A i \in 1..Len(cs) : x <= cs[i].low,
     volume |-> SumOf([i \in 1..Len(cs) |-> cs[i].volume])]

-----------------------------------------------------------------------------
(* C1: in every reachable state every exchange+symbol has at most one      *)
(* upstream socket that is connecting or open.                             *)
C1_AtMostOneLiveSocket ==
    \A pair \in Pairs : Cardinality(LiveSockets(pair[1], pair[2])) <= 1

(* C2: once a second identity has subscribed to a key there is exactly     *)
(* one connecting or open socket for the pair, and when no handler is      *)
(* under way every base candle that arrived while two identities held the  *)
(* key (and have held it since) has been handed to the sink for each.      *)
C2_TwoSubscribersShareOneSocket ==
    /\ (lastOp.op = "connect" /\ lastOp.status = 200 /\ lastOp.subscribers >= 2)
       => Cardinality(LiveSockets(lastOp.exchange, lastOp.symbol)) = 1
    /\ handlers = <<>> =>
         \A j \in 1..Len(arrived) : \A ut \in arrived[j].interested :
             (\E other \in arrived[j].interested : other[2] = ut[2] /\ other[1] # ut[1])
             => \E i \in 1..Len(sent) :
                    /\ sent[i].userId = ut[1]
                    /\ RequestedTimeframe(sent[i].key) = ut[2]
                    /\ sent[i].candle.timestamp = arrived[j].candle.timestamp

(* C3: when an unsubscribe has removed the last subscriber of a pair, no   *)
(* connecting or open socket of the pair remains, whatever state the       *)
(* socket was in.                                                          *)
C3_LastUnsubscribeClosesSocket ==
    (/\ lastOp.op = "disconnect"
     /\ "removed" \in lastOp.did
     /\ PairSubs(OpPair) = {})
    => LiveSockets(lastOp.exchange, lastOp.symbol) = {}

(* C4: an unsubscribe that leaves a subscriber on the pair (another        *)
(* timeframe, or another subscriber of the same timeframe) leaves the      *)
(* sockets and the connection registry as they were.                       *)
C4_UnsubscribeLeavesSharedConnection ==
    [][(/\ lastOp'.op = "disconnect"
        /\ lastOp'.status = 200
        /\ Interested(userSubscriptions', lastOp'.exchange, lastOp'.symbol) # {})
       => (activeConnections' = activeConnections /\ sockets' = sockets)]_vars

\* An unsubscribe removed a subscriber, another subscription of the pair
\* stays, and the pair's connection is registered and open.
C4_Witness ==
    /\ lastOp.op = "disconnect"
    /\ "removed" \in lastOp.did
    /\ PairSubs(OpPair) # {}
    /\ BaseKey(lastOp.exchange, lastOp.symbol) \in DOMAIN activeConnections
    /\ sockets[activeConnections[BaseKey(lastOp.exchange, lastOp.symbol)]].state = "open"

TimerHasReconnected ==
    /\ lastOp.op = "timer"
    /\ \/ PairSubs(OpPair) = {}
       \/ "created" \in lastOp.did
       \/ BaseKey(lastOp.exchange, lastOp.symbol) \in DOMAIN activeConnections

(* C6: whenever a socket has closed, a reconnect timer is pending, and as  *)
(* long as one is pending a timer fires in the end (they fire in the order *)
(* of the closes); every timer that fires while the pair still has a       *)
(* subscriber makes a connection attempt: it creates a new socket, unless  *)
(* a connection of the pair is registered already.  This holds after       *)
(* every close, however many there were before.                            *)
C6_ReconnectAfterEveryClose ==
    /\ [](lastOp.op = "close" => timers # <<>>)
    /\ [](timers # <<>> => <>TimerHasReconnected)
    /\ [](lastOp.op = "timer" => TimerHasReconnected)

\* A socket closed while the pair had subscribers, a subscriber is still
\* there when the timer fires, and the timer has created a new socket.
C6_Witness ==
    /\ lastOp.op = "timer"
    /\ "wantedAtClose" \in lastOp.did
    /\ "created" \in lastOp.did
    /\ PairSubs(OpPair) # {}
    /\ LiveSockets(lastOp.exchange, lastOp.symbol) # {}

(* C7: every candle handed to the sink for a key whose timeframe needs n   *)
(* base candles is the fold of n base candles that arrived one after the   *)
(* other on the pair: first open, last close, highest high, lowest low,    *)
(* summed volume, first open time, and the requested timeframe as label.   *)
C7_DerivedCandleIsFoldOfConsecutive ==
    \A i \in 1..Len(sent) :
        LET timeframe == RequestedTimeframe(sent[i].key)
            n == timeframeToMinutes(timeframe)
            log == ArrivedOf(<<sent[i].candle.exchange, sent[i].candle.symbol>>)
        IN  \E j \in 1..(Len(log) - n + 1) :
                sent[i].candle =
                    FoldOf([m \in 1..n |-> log[j + m - 1].candle], timeframe)

(* C8: for a subscriber of the one timeframe its run asks for, needing n   *)
(* base candles, that has been subscribed since before the first of the k  *)
(* base candles of the pair arrived, never more than k \div n derived      *)
(* candles have been handed to the sink, and exactly k \div n once no      *)
(* handler is under way.                                                   *)
C8_DerivedCountIsFloor ==
    \A pair \in Pairs : \A ut \in PairSubs(pair) :
        LET n == timeframeToMinutes(ut[2])
            log == ArrivedOf(pair)
            k == Len(log)
            d == SentTo(ut[1], SubKey(pair[1], pair[2], ut[2]))
        IN  (/\ env.timeframes = {ut[2]}
             /\ \A j \in 1..k : ut \in log[j].interested)
            => /\ d <= k \div n
               /\ handlers = <<>> => d = k \div n

(* C9: a candle handed to the sink for a 1m key is a base candle that      *)
(* arrived, equal in every field (its label is 1m); and once no handler    *)
(* is under way every base candle that arrived for a 1m subscription held  *)
(* since has been handed to the sink for it.                               *)
C9_BaseSubscriberGetsCandleVerbatim ==
    /\ \A i \in 1..Len(sent) :
           RequestedTimeframe(sent[i].key) = "1m"
           => \E j \in 1..Len(arrived) : sent[i].candle = arrived[j].candle
    /\ handlers = <<>> =>
         \A j \in 1..Len(arrived) : \A ut \in arrived[j].interested :
             ut[2] = "1m"
             => \E i \in 1..Len(sent) :
                    /\ sent[i].userId = ut[1]
                    /\ RequestedTimeframe(sent[i].key) = "1m"
                    /\ sent[i].candle = arrived[j].candle

(* C10: the buffer of a subscriber holds at most 2n base candles for every *)
(* aggregated timeframe (n > 1) the subscriber holds on the pair, also     *)
(* when it holds several.                                                  *)
C10_BufferAtMostTwiceN ==
    \A pair \in Pairs : \A ut \in PairSubs(pair) :
        LET n == timeframeToMinutes(ut[2])
            bufferKey == BufferKey(ut[1], pair[1], pair[2])
        IN  (n > 1 /\ bufferKey \in DOMAIN candleBuffers)
            => Len(candleBuffers[bufferKey].candles) <= 2 * n

-----------------------------------------------------------------------------
(* C11: in every reachable state no key of the subscription registry has   *)
(* an empty subscriber set.                                                *)
C11_NoEmptySubscriberSet ==
    \A i \in 1..Len(userSubscriptions) : userSubscriptions[i].users # <<>>

\* An unsubscribe has removed the last subscriber of its key and the key is
\* gone, while another key is still registered.
C11_Witness ==
    /\ lastOp.op = "disconnect"
    /\ "removed" \in lastOp.did
    /\ ~HasKey(userSubscriptions, SubKey(lastOp.exchange, lastOp.symbol, lastOp.timeframe))
    /\ userSubscriptions # <<>>

(* C12: in every reachable state every pair that has an entry in the       *)
(* connection registry has a subscriber on some timeframe.                 *)
C12_RegisteredConnectionHasSubscriber ==
    \A pair \in Pairs :
        BaseKey(pair[1], pair[2]) \in DOMAIN activeConnections => PairSubs(pair) # {}

(* C13: a subscribe or unsubscribe request with a field missing or empty,  *)
(* or for an exchange name that is not supported, is answered with an      *)
(* error and leaves the subscription registry, the connection registry     *)
(* and the buffers as they were.                                           *)
C13_InvalidRequestRejectedUnchanged ==
    [][(/\ lastOp'.op \in {"connect", "disconnect"}
        /\ \/ MissingField(lastOp'.exchange, lastOp'.symbol, lastOp'.timeframe,
                           lastOp'.userId)
           \/ lastOp'.exchange \notin SupportedExchanges)
       => (/\ lastOp'.status # 200
           /\ UNCHANGED <<userSubscriptions, activeConnections, candleBuffers>>)]_vars

(* C14: a well-formed unsubscribe for a subscription that is not in the    *)
(* registry succeeds and leaves the subscription registry, the connection  *)
(* registry and every buffer as they were, also the buffer the subscriber  *)
(* holds through another timeframe of the pair.                            *)
C14_UnsubscribeOfNonSubscriberChangesNothing ==
    [][(/\ lastOp'.op = "disconnect"
        /\ ~MissingField(lastOp'.exchange, lastOp'.symbol, lastOp'.timeframe,
                         lastOp'.userId)
        /\ <<lastOp'.userId, lastOp'.timeframe>>
              \notin Interested(userSubscriptions, lastOp'.exchange, lastOp'.symbol))
       => (/\ lastOp'.status = 200
           /\ UNCHANGED <<userSubscriptions, activeConnections, candleBuffers>>)]_vars

\* The identities registered under key in the registry subs.
IdentitiesOf(subs, key) == {UsersOf(subs, key)[i] : i \in 1..Len(UsersOf(subs, key))}

(* C15: a successful subscribe answers with the number of distinct         *)
(* identities registered under its key after the call, which are those     *)
(* registered before and the caller; when the caller was registered        *)
(* already the count is the one before and the set is left as it was.      *)
C15_SubscribeReturnsDistinctCount ==
    [][(lastOp'.op = "connect" /\ lastOp'.status = 200)
       => LET key == SubKey(lastOp'.exchange, lastOp'.symbol, lastOp'.timeframe)
              before == IdentitiesOf(userSubscriptions, key)
              after == IdentitiesOf(userSubscriptions', key)
          IN  /\ after = before \cup {lastOp'.userId}
              /\ lastOp'.subscribers = Cardinality(after)
              /\ Len(UsersOf(userSubscriptions', key)) = Cardinality(after)
              /\ lastOp'.userId \in before
                    => /\ lastOp'.subscribers = Cardinality(before)
                       /\ UsersOf(userSubscriptions', key) = UsersOf(userSubscriptions, key)]_vars

\* The identity that registered first under a key of two subscribes again
\* and is answered 2.
C15_Witness ==
    /\ lastOp.op = "connect"
    /\ lastOp.status = 200
    /\ lastOp.subscribers = 2
    /\ UsersOf(userSubscriptions,
               SubKey(lastOp.exchange, lastOp.symbol, lastOp.timeframe))[1] = lastOp.userId

\* The candles handed to the sink for userId under a key of the timeframe,
\* made from the base candle with this open time.
Deliveries(userId, timeframe, timestamp) ==
    {i \in 1..Len(sent) :
        /\ sent[i].userId = userId
        /\ RequestedTimeframe(sent[i].key) = timeframe
        /\ sent[i].candle.timestamp = timestamp}

(* C16: a delivery that fails (a status that is not ok, a transport error) *)
(* changes neither registry nor the sockets; once no handler is under way  *)
(* every base candle has been handed to the sink exactly once for each 1m  *)
(* subscription that has been held since it arrived, whatever happened to  *)
(* the deliveries to the others, and the buffers of the 1m subscribers are *)
(* drained as after a success.                                             *)
C16_FailedDeliveryIsSwallowed ==
    /\ [][(lastOp'.op = "resume" /\ lastOp'.did # {})
          => UNCHANGED <<userSubscriptions, activeConnections, sockets, timers>>]_vars
    /\ [](handlers = <<>> =>
            /\ \A j \in 1..Len(arrived) : \A ut \in arrived[j].interested :
                   ut[2] = "1m"
                   => Cardinality(Deliveries(ut[1], "1m", arrived[j].candle.timestamp)) = 1
            /\ \A pair \in Pairs : \A ut \in PairSubs(pair) :
                   LET bufferKey == BufferKey(ut[1], pair[1], pair[2])
                   IN  (ut[2] = "1m" /\ env.timeframes = {"1m"}
                        /\ bufferKey \in DOMAIN candleBuffers)
                       => candleBuffers[bufferKey].candles = <<>>)

\* The delivery to one subscriber has failed and the same candle has been
\* handed to the sink for the other.
C16_Witness ==
    /\ lastOp.op = "resume"
    /\ lastOp.did # {}
    /\ Len(sent) = 2
    /\ sent[1].userId # sent[2].userId
    /\ sent[1].candle = sent[2].candle
    /\ \A ut \in arrived[1].interested : Deliveries(ut[1], "1m", 1) # {}

\* The open times of the entries of a message that are flagged as closed, in
\* the order of the message: the one kline of a Binance event, the entries
\* of the data list of a Bybit message.
ClosedTimes(message) ==
    IF message.e = "kline"
    THEN IF message.k[1].x THEN <<message.k[1].t>> ELSE <<>>
    ELSE LET Flagged(entry) == entry.confirm
             flagged == SelectSeq(message.data, Flagged)
         IN  [i \in 1..Len(flagged) |-> flagged[i].start]

(* C17: the handler of a message makes base candles of exactly the entries *)
(* flagged as closed, in the order of the message (unconfirmed entries of  *)
(* a batch are passed over); a message without a closed entry changes no   *)
(* buffer and dispatches nothing; what the handler dispatches before it    *)
(* first suspends is the first closed entry; every candle handed to the    *)
(* sink and every buffered candle is one made of a closed entry; and once  *)
(* no handler is under way every closed entry has been handed to the sink  *)
(* for each 1m subscription held since it arrived.                         *)
C17_OnlyClosedEntriesDispatched ==
    /\ [][lastOp'.op = "message"
          => LET closed == ClosedTimes(lastOp'.message[1])
             IN  /\ Len(arrived') = Len(arrived) + Len(closed)
                 /\ \A i \in 1..Len(closed) :
                        arrived'[Len(arrived) + i].candle.timestamp = closed[i]
                 /\ closed = <<>> => UNCHANGED <<candleBuffers, sent, handlers>>
                 /\ \A i \in (Len(sent) + 1)..Len(sent') :
                        sent'[i].candle.timestamp = closed[1]]_vars
    /\ [](/\ \A i \in 1..Len(sent) :
                 \E j \in 1..Len(arrived) :
                     sent[i].candle = [arrived[j].candle EXCEPT
                                          !.timeframe = RequestedTimeframe(sent[i].key)]
          /\ \A bufferKey \in DOMAIN candleBuffers :
                 \A i \in 1..Len(candleBuffers[bufferKey].candles) :
                     \E j \in 1..Len(arrived) :
                         candleBuffers[bufferKey].candles[i] = arrived[j].candle
          /\ handlers = <<>> =>
                 \A j \in 1..Len(arrived) : \A ut \in arrived[j].interested :
                     Deliveries(ut[1], ut[2], arrived[j].candle.timestamp) # {})

\* A Bybit batch whose first entry is unconfirmed and whose second entry is
\* confirmed has been handled, and the candle of the second entry alone has
\* been handed to the sink.
C17_Witness ==
    /\ lastOp.op = "message"
    /\ Len(lastOp.message[1].data) = 2
    /\ ~lastOp.message[1].data[1].confirm
    /\ lastOp.message[1].data[2].confirm
    /\ Len(sent) = 1
    /\ sent[1].candle.timestamp = lastOp.message[1].data[2].start
    /\ Len(arrived) = 1

\* A message the handler has no branch for as it stands: a text that is no
\* JSON, or a kline event without its price fields.
IsMalformed(message) ==
    \/ ~message.json
    \/ message.e = "kline" /\ message.k[1].o = <<>>

(* C18: the handler of a malformed or unparseable message changes neither  *)
(* the sockets, nor the connection registry, nor the subscription          *)
(* registry, nor any buffer, and hands nothing to the sink.                *)
C18_MalformedMessageIsSkipped ==
    [][(lastOp'.op = "message" /\ IsMalformed(lastOp'.message[1]))
          => UNCHANGED <<sockets, timers, activeConnections, userSubscriptions,
                         candleBuffers, sent>>]_vars

(* C19: the handler of a message that carries a closed candle never starts *)
(* while the handler of an earlier message of the same socket is suspended *)
(* in its delivery call, that is between two steps of its processing.      *)
C19_MessageProcessingIsAtomic ==
    [][(lastOp'.op = "message" /\ Len(arrived') > Len(arrived))
          => \A j \in 1..Len(handlers) : handlers[j].socket # lastOp'.socket]_vars

(* C20: whatever subscribe and unsubscribe requests are handled while a    *)
(* base candle is fanned out, the candle is handed to the sink at most     *)
(* once for a subscriber of the 1m key, and once no handler is under way   *)
(* it has been handed to the sink for every 1m subscription held since it  *)
(* arrived.                                                                *)
C20_FanoutVisitsEachPairOnce ==
    /\ \A i \in 1..Len(sent) : \A j \in 1..Len(sent) :
           (/\ i < j
            /\ RequestedTimeframe(sent[i].key) = "1m"
            /\ sent[i].key = sent[j].key
            /\ sent[i].userId = sent[j].userId)
           => sent[i].candle.timestamp # sent[j].candle.timestamp
    /\ handlers = <<>> =>
           \A j \in 1..Len(arrived) : \A ut \in arrived[j].interested :
               ut[2] = "1m" => Deliveries(ut[1], "1m", arrived[j].candle.timestamp) # {}

(* C21: the base candles of a pair are handed to the sink, for each        *)
(* subscriber of the 1m key, in the order they arrived (the open times of  *)
(* the klines grow with the order of arrival): a candle is never handed to *)
(* the sink for a subscriber after a later one was.                        *)
C21_DispatchInArrivalOrder ==
    \A i \in 1..Len(sent) : \A j \in 1..Len(sent) :
        (/\ i < j
         /\ RequestedTimeframe(sent[i].key) = "1m"
         /\ sent[i].key = sent[j].key
         /\ sent[i].userId = sent[j].userId)
        => sent[i].candle.timestamp <= sent[j].candle.timestamp

\* The timeframes of a pair that userId is subscribed to in subs.
HeldTimeframes(subs, pair, userId) ==
    {ut[2] : ut \in {x \in Interested(subs, pair[1], pair[2]) : x[1] = userId}}

(* C22: a buffer of (subscriber, exchange, symbol) exists only while the   *)
(* subscriber holds some timeframe of the pair and a base candle of the    *)
(* pair has arrived; the unsubscribe that leaves the subscriber without a  *)
(* timeframe of the pair discards the buffer, and an unsubscribe after     *)
(* which the subscriber still holds a timeframe of the pair leaves it.     *)
C22_BufferLivesWithInterest ==
    /\ [](\A pair \in Pairs : \A userId \in env.users :
             BufferKey(userId, pair[1], pair[2]) \in DOMAIN candleBuffers
             => /\ HeldTimeframes(userSubscriptions, pair, userId) # {}
                /\ ArrivedOf(pair) # <<>>)
    /\ [][(lastOp'.op = "disconnect" /\ "removed" \in lastOp'.did)
          => LET pair == <<lastOp'.exchange, lastOp'.symbol>>
                 bufferKey == BufferKey(lastOp'.userId, pair[1], pair[2])
             IN  IF HeldTimeframes(userSubscriptions', pair, lastOp'.userId) = {}
                 THEN bufferKey \notin DOMAIN candleBuffers'
                 ELSE bufferKey \in DOMAIN candleBuffers
                      => bufferKey \in DOMAIN candleBuffers']_vars

\* The open times of the base candles that went into a derived candle of a
\* timeframe: the candle is labelled with the open time of the first of the
\* n base candles, which arrive one per minute.
FoldedTimes(candle, timeframe) ==
    candle.timestamp..(candle.timestamp + timeframeToMinutes(timeframe) - 1)

(* C23: in the runs on one timeframe, no base candle goes into two derived *)
(* candles of the same subscription, and the candles that leave the front  *)
(* of a buffer when a handler goes on after its delivery are candles that  *)
(* went into a derived candle handed to the sink for that subscriber.      *)
C23_FoldConsumesWhatItDrops ==
    /\ [](\A i \in 1..Len(sent) : \A j \in 1..Len(sent) :
             (/\ i < j
              /\ env.timeframes = {RequestedTimeframe(sent[i].key)}
              /\ sent[i].key = sent[j].key
              /\ sent[i].userId = sent[j].userId)
             => FoldedTimes(sent[i].candle, RequestedTimeframe(sent[i].key))
                  \cap FoldedTimes(sent[j].candle, RequestedTimeframe(sent[j].key)) = {})
    /\ [][lastOp'.op = "resume"
          => \A pair \in Pairs : \A userId \in env.users : \A timeframe \in env.timeframes :
                LET bufferKey == BufferKey(userId, pair[1], pair[2])
                    before == candleBuffers[bufferKey].candles
                    after == candleBuffers'[bufferKey].candles
                IN  (/\ env.timeframes = {timeframe}
                     /\ bufferKey \in DOMAIN candleBuffers
                     /\ bufferKey \in DOMAIN candleBuffers'
                     /\ Len(after) < Len(before))
                    => \A k \in 1..(Len(before) - Len(after)) :
                          \E i \in 1..Len(sent) :
                              /\ sent[i].userId = userId
                              /\ RequestedTimeframe(sent[i].key) = timeframe
                              /\ before[k].timestamp
                                    \in FoldedTimes(sent[i].candle, timeframe)]_vars

(* C24: a handler that is suspended in the delivery for a subscription     *)
(* has used the base-candle count of the timeframe the subscription was    *)
(* requested with (requiredCandles, which it drops from the buffer when it *)
(* goes on), whatever the exchange name.                                   *)
C24_CountOfRequestedTimeframe ==
    \A j \in 1..Len(handlers) :
        handlers[j].attached
        => handlers[j].n = timeframeToMinutes(RequestedTimeframe(handlers[j].key))

(* C25: in the runs where a subscriber can hold two timeframes of a pair,  *)
(* a base candle is in a buffer at most once, and the number of candles    *)
(* handed to the sink for a subscriber under a key is at most the number   *)
(* of full groups of n base candles of the pair that have arrived, as it   *)
(* is for a subscriber that holds that one timeframe alone.                *)
C25_TimeframesAggregateIndependently ==
    Cardinality(env.timeframes) = 2
    => /\ \A bufferKey \in DOMAIN candleBuffers :
              LET candles == candleBuffers[bufferKey].candles
              IN  \A i \in 1..Len(candles) : \A j \in 1..Len(candles) :
                      i < j => candles[i].timestamp # candles[j].timestamp
       /\ \A i \in 1..Len(sent) :
              SentTo(sent[i].userId, sent[i].key)
                  * timeframeToMinutes(RequestedTimeframe(sent[i].key))
              <= Len(arrived)

\* The subscriptions of exactly this exchange and symbol in subs.
ExactSubs(subs, pair) ==
    {<<userId, timeframe>> \in env.users \X env.timeframes :
        IndexOf(UsersOf(subs, SubKey(pair[1], pair[2], timeframe)), userId) # 0}

(* C26: a candle is handed to the sink only under a key of the candle's    *)
(* own exchange and symbol; the unsubscribe that leaves a pair without a   *)
(* subscription of exactly that exchange and symbol closes its registered  *)
(* socket; and a reconnect timer creates a socket only for a pair that has *)
(* a subscription of exactly that exchange and symbol.                     *)
C26_InterestIsExactPair ==
    /\ [](\A i \in 1..Len(sent) :
             \E timeframe \in env.timeframes :
                 sent[i].key = SubKey(sent[i].candle.exchange, sent[i].candle.symbol,
                                      timeframe))
    /\ [][(/\ lastOp'.op = "disconnect"
           /\ "removed" \in lastOp'.did
           /\ ExactSubs(userSubscriptions', <<lastOp'.exchange, lastOp'.symbol>>) = {}
           /\ BaseKey(lastOp'.exchange, lastOp'.symbol) \in DOMAIN activeConnections)
          => "closed" \in lastOp'.did]_vars
    /\ [][(lastOp'.op = "timer" /\ "created" \in lastOp'.did)
          => ExactSubs(userSubscriptions, <<lastOp'.exchange, lastOp'.symbol>>) # {}]_vars

\* C27: once /disconnect has closed the socket of a key and removed the key
\* from the registry, and no /connect for the key is handled afterwards, the
\* reconnect timer of that socket creates no socket for the key and the key
\* stays out of the registry (variant without subscribers).
C27_ReleasedKeyStaysReleased ==
    [][(lastOp'.op = "timer" /\ "released" \in lastOp'.did)
        => /\ "created" \notin lastOp'.did
           /\ SubKey(lastOp'.exchange, lastOp'.symbol, lastOp'.timeframe)
                  \notin DOMAIN activeConnections']_vars

\* C28: the close event of a socket leaves in the connection registry every
\* entry that holds another socket; in particular the late close of a socket
\* that the last unsubscribe closed leaves the entry of the newer socket that
\* a subscribe has registered for the same pair since.
C28_CloseRemovesOwnEntryOnly ==
    [][(lastOp'.op = "close" /\ DOMAIN sockets' # DOMAIN sockets)
        => \A k \in DOMAIN activeConnections :
               activeConnections[k] \in DOMAIN sockets'
               => /\ k \in DOMAIN activeConnections'
                  /\ activeConnections'[k] = activeConnections[k]]_vars

\* C29: every candle handed to the sink is handed for a subscriber that
\* holds the candle's key at that moment; after its unsubscribe a subscriber
\* gets nothing more for the key, also from a fan-out that was under way
\* when it unsubscribed.
C29_DeliveryOnlyToSubscribed ==
    [][Len(sent') > Len(sent)
        => LET r == sent'[Len(sent')]
           IN  IndexOf(UsersOf(userSubscriptions', r.key), r.userId) # 0]_vars

\* A subscriber has just unsubscribed from a key whose fan-out is under
\* way: a handler is suspended in the delivery to another subscriber of the
\* key, and nothing has been handed to the sink for the one that left.
C29_Witness ==
    /\ lastOp.op = "disconnect"
    /\ "removed" \in lastOp.did
    /\ sent # <<>>
    /\ \A i \in 1..Len(sent) : sent[i].userId # lastOp.userId
    /\ \E j \in 1..Len(handlers) :
          /\ handlers[j].live
          /\ handlers[j].key = SubKey(lastOp.exchange, lastOp.symbol, lastOp.timeframe)

\* high >= max(open, close) and low <= min(open, close), as the comparisons
\* of numbers decide it (none holds of NaN).
WellFormed(candle) ==
    /\ ~HasNaN(<<candle.open, candle.high, candle.low, candle.close>>)
    /\ candle.high >= candle.open /\ candle.high >= candle.close
    /\ candle.low <= candle.open /\ candle.low <= candle.close

\* The candles of the buffer that the fold of `derived` took in.
FoldedChunk(derived) ==
    Chunk(candleBuffers[derived.key].candles,
          timeframeToMinutes(candleBuffers[derived.key].targetTimeframe))

\* C30: when every 1m candle that enters a fold has its high at or above
\* its open and close and its low at or below them, the derived candle has
\* so too, and its low is at or below its high.
C30_FoldKeepsHighLowBounds ==
    \A i \in 1..Len(sent) :
        (lastOp.op = "fold"
         /\ \A k \in 1..Len(FoldedChunk(sent[i])) : WellFormed(FoldedChunk(sent[i])[k]))
        => /\ WellFormed(sent[i].candle)
           /\ sent[i].candle.low <= sent[i].candle.high

\* A fold of five well-formed candles out of a longer buffer, whose high
\* and low are not those of its first candle and whose buffer holds an
\* ill-formed candle before the five.
C30_Witness ==
    /\ lastOp.op = "fold"
    /\ Len(sent) = 1
    /\ LET chunk == FoldedChunk(sent[1])
           candles == candleBuffers[sent[1].key].candles
       IN  /\ Len(chunk) = 5
           /\ Len(candles) > 5
           /\ ~WellFormed(candles[1])
           /\ \A k \in 1..5 : WellFormed(chunk[k])
           /\ sent[1].candle.high > chunk[1].high
           /\ sent[1].candle.low < chunk[1].low
           /\ sent[1].candle.close > chunk[1].high

\* The timeframes timeframeToMinutes lists.
ListedTimeframes == {"1m", "5m", "15m", "30m", "1h", "4h"}

\* C31: a subscribe request for a timeframe that is not listed is answered
\* 200 and registers the subscriber; every candle handed to the sink under
\* such a key is a base candle that arrived, with its values and with the
\* requested label as its timeframe; and when no handler is under way every
\* base candle that arrived while the subscription was held (and has been
\* held since) was handed to the sink for it.
C31_UnlistedTimeframeIsMultiplierOne ==
    /\ [][(lastOp'.op = "connect" /\ lastOp'.timeframe \notin ListedTimeframes
           /\ ~MissingField(lastOp'.exchange, lastOp'.symbol, lastOp'.timeframe,
                            lastOp'.userId))
          => /\ lastOp'.status = 200
             /\ IndexOf(UsersOf(userSubscriptions',
                                SubKey(lastOp'.exchange, lastOp'.symbol,
                                       lastOp'.timeframe)),
                        lastOp'.userId) # 0]_vars
    /\ [](\A i \in 1..Len(sent) :
             RequestedTimeframe(sent[i].key) \notin ListedTimeframes
             => \E j \in 1..Len(arrived) :
                    sent[i].candle = [arrived[j].candle EXCEPT
                                         !.timeframe = RequestedTimeframe(sent[i].key)])
    /\ [](handlers = <<>>
          => \A j \in 1..Len(arrived) : \A ut \in arrived[j].interested :
                 ut[2] \notin ListedTimeframes
                 => \E i \in 1..Len(sent) :
                        /\ sent[i].userId = ut[1]
                        /\ RequestedTimeframe(sent[i].key) = ut[2]
                        /\ sent[i].candle.timestamp = arrived[j].candle.timestamp)

====
